---- MODULE Spec2Model ----
(***************************************************************************)
(* The synchronization engine of the FTP mirroring tool: FtpWorker of      *)
(* src/ftp-tool-Pyton/src/core/ftp_worker.py.  One worker thread runs the  *)
(* cycle loop (run), a controlling thread calls stop / stop_and_wait, the  *)
(* remote server and the network are the environment.                     *)
(***************************************************************************)
EXTENDS Integers, Sequences, FiniteSets, TLC

\* ------------------------------------------------------------------ bounds
MaxThreads == 2         \* worker threads the main window starts
GuiCycles == 2          \* download cycles of each of them
MaxBytes == 6           \* maximum size of the log file, in bytes
MaxWrites == 7          \* records written to the log
MaxDays == 1            \* midnights passed while logging
MaxProbeLoss == 1       \* failed restoring cwd('..') in a run
ProbeFlips == 1         \* changes of the network while listing
MailCycles == 4         \* cycles of a run that sends alerts
MaxMailLoss == 1        \* mails delivered whose sending ended in an exception
StopCalls == 2          \* calls of stop() and stop_and_wait() in a run
MaxReleases == 3        \* calls of _cleanup_connections in a row
ReleaseFlips == 1       \* changes of the network between those calls
CancelRaises == 1       \* calls of the event sink that throw, in that specification
CancelCycles == 2       \* download cycles, for the specification of cancellation
FileCycles == 1         \* the same, for the specification of the walk under errors
FileFlips == 2
DiskFlips == 2          \* times the local disk changes between writable and full
GateCycles == 2         \* the same, for the specification of the stability gate
GateFlips == 2
MaxGrow == 2            \* times the producer appends to a remote file
MaxCycles == 2          \* download cycles of one run of the worker
MaxFlips == 2           \* changes of the network between up and down
MaxCalls == 1           \* calls the controlling thread makes
SchedCycles == 3        \* the same three, for the scheduler's specification
SchedFlips == 1
SchedRaises == 3        \* calls of the event sink that throw
skip_log_limit == 1     \* the setting skip_log_limit
PollBudget == 2         \* FileStabilityWait, in one-second polls

\* ------------------------------------------------------- program constants
max_connection_failures == 3
max_retries == 3
required_stable_count == 2
cleanup_interval == 2   \* 3600 s, in waits of 1800 s
notify_threshold == 1   \* in waits

backupCount == 5
None == -1

\* ------------------------------------------------------------ file names
RemoteRoot == "/data"
LocalRoot == "L"
Suffix == ".part"

\* f"{remote_path}/{name}".replace('//', '/')
RemoteJoin(dir, name) == IF dir = "/" THEN "/" \o name ELSE dir \o "/" \o name
\* os.path.join(local_path, name)
LocalJoin(dir, name) == dir \o "/" \o name
\* temp_local = local_item_path + '.part'
TempPath(lp) == lp \o Suffix

\* The remote tree: the server's directories, and per directory the names it
\* lists, in the order the server returns them.
RemoteDirs == {"/data", "/data/sub"}
Children(dir) ==
  IF dir = "/data" THEN <<"a.part", "sub", "a">>
  ELSE IF dir = "/data/sub" THEN <<"b">>
  ELSE <<>>
RemoteFiles == {"/data/a.part", "/data/a", "/data/sub/b"}
InitialSize(rp) == IF rp = "/data/a" THEN 2 ELSE 1
LocalOf(rp) ==
  IF rp = "/data/a.part" THEN "L/a.part"
  ELSE IF rp = "/data/a" THEN "L/a"
  ELSE "L/sub/b"
DestPaths == {LocalOf(rp) : rp \in RemoteFiles}
LocalPaths == DestPaths \cup {TempPath(p) : p \in DestPaths}

NoFile == [len |-> None, whole |-> FALSE]
Exists(fs, p) == fs[p].len # None

VARIABLES
  pc,                    \* the worker's position in run()
  is_running, stop_event, stopped_event,
  ftp_connection,        \* self._ftp_connection is not None
  sock_open,             \* the newest FTP object's control connection is open
  leaked,                \* open connections that nothing references any more
  connection_failures, mlsd_supported, cycle_count,
  now, last_download_time, last_cleanup_time, notified_no_download,
  attempt,               \* loop variable of _get_or_create_ftp_connection
  stack,                 \* frames of download_dir_recursive, innermost last
  cur,                   \* the file being processed by the innermost frame
  ret,                   \* value returned by perform_ftp_download
  settings, server,      \* configuration snapshot; server capabilities
  rsize,                 \* remote files: size, 0 when the file is not there
  local, ldirs,          \* local files and directories
  net, flips,            \* the network, and how often it changed
  disk, dflips,          \* the local disk, and how often it changed
  logf,                  \* the log file handler and the log files of the day
  raises,                \* how often the event sink threw
  lim,                   \* what the environment may do in this run
  ctl, calls, saw_result,\* the controlling thread
  hist,                  \* observations of the run, used by the properties
  gui,                   \* the main window: its references to thread and worker
  wk                     \* the worker threads the main window has started

vars == <<pc, is_running, stop_event, stopped_event, ftp_connection, sock_open,
          leaked, connection_failures, mlsd_supported, cycle_count, now,
          last_download_time, last_cleanup_time, notified_no_download, attempt,
          stack, cur, ret, settings, server, rsize, local, ldirs, net, flips,
          raises, lim, ctl, calls, saw_result, hist, gui, wk, disk, dflips,
          logf>>

flagVars == <<is_running, stop_event, stopped_event>>
connVars == <<ftp_connection, sock_open, leaked>>
timeVars == <<now, last_download_time, last_cleanup_time, notified_no_download>>
fsVars == <<rsize, local, ldirs>>
guiVars == <<gui, wk>>
diskVars == <<disk, dflips, logf>>
envVars == <<settings, server, net, flips, lim, guiVars, diskVars>>
ctlVars == <<ctl, calls, saw_result>>
walkVars == <<stack, cur>>

NoCur == [rp |-> "", lp |-> "", fact |-> None, remote_size |-> None,
          prev_size |-> None, stable_count |-> 0, polls |-> 0,
          before |-> None,  \* the size read before prev_size
          changes |-> 0,    \* polls that read a size other than the one before
          sent |-> 0, total |-> 0]

\* What the properties need to know of the past: of the current cycle, of the
\* run of failed cycles, of the file processed last.
NoHist == [clean |-> FALSE, cleanRuns |-> 0, scen |-> "other",
           cycErr |-> "none", streak |-> 0, resets |-> 0, cfAtStart |-> 0,
           out |-> "none", unk |-> FALSE, fresh |-> FALSE, initKnown |-> FALSE,
           stopReq |-> FALSE, tree |-> {},
           mlsdFailed |-> FALSE, reprobe |-> FALSE,
           sessTries |-> 0, sessListed |-> FALSE,
           changing |-> FALSE, unstableBefore |-> FALSE,
           listed |-> {}, visited |-> {}, failed |-> {}, dirFailed |-> {},
           skipEvents |-> 0,
           sigRetr |-> FALSE, sigMore |-> FALSE, sigSent |-> 0,
           sigDest |-> NoFile, sigInPoll |-> FALSE, sigPollAt |-> 0,
           cut |-> "none", tornDown |-> FALSE,
           relRaised |-> FALSE, relFailed |-> FALSE,
           hookEvals |-> 0, hookLdt |-> 0, lastList |-> "none",
           restoreLost |-> 0, published |-> 0, alerts |-> 0,
           unconfirmed |-> 0]

\* The main window (main_window.py): worker_thread and ftp_worker are 0 for
\* None, else the number of the thread; aborted: Qt ended the process.
Threads == 1..MaxThreads
NoGui == [worker_thread |-> 0, ftp_worker |-> 0, made |-> 0, refused |-> FALSE,
          aborted |-> FALSE]
NoWorker == [st |-> "none", is_running |-> FALSE, cycles |-> 0, pending |-> FALSE]

\* ------------------------------------------------------------- the session
\* An FTP command on the worker's connection succeeds when the network is up
\* and the connection has not been closed.
OpOK == net = "up" /\ sock_open

\* open(), write() and os.replace / os.rename on the local disk succeed
LocalOK == disk = "ok"

\* SockAfterCleanup of a cleanup that forgets the connection without closing it
SockLeftOpen == sock_open

\* _cleanup_connections, run by the worker: quit (or close) and forget.
SockAfterCleanup == IF ftp_connection THEN FALSE ELSE sock_open

\* The local root is empty, or holds what an earlier run mirrored.
Mirrored(rs) == [p \in LocalPaths |->
                   IF \E rp \in RemoteFiles : LocalOf(rp) = p /\ rs[rp] > 0
                   THEN [len |-> rs[CHOOSE rp \in RemoteFiles : LocalOf(rp) = p],
                         whole |-> TRUE]
                   ELSE NoFile]

\* no log handler yet.  size: bytes of the active file; rotated: suffixes of
\* the rotated files of current_date; nl: bytes the platform writes for the
\* line end; day: today's date; needed, rolled, replaceFailed: what the last
\* write found and did
NoLog == [open |-> FALSE, size |-> 0, rotated |-> {}, nl |-> 1, day |-> 0,
          current_date |-> 0, writes |-> 0, needed |-> FALSE,
          rolled |-> FALSE, replaceFailed |-> FALSE]

InitWith(limits, trees, stability, servers, mirrors) ==
  /\ lim = limits /\ raises = 0
  /\ disk = "ok" /\ dflips = 0 /\ logf = NoLog
  /\ pc = "start"
  /\ is_running = FALSE /\ stop_event = FALSE /\ stopped_event = FALSE
  /\ ftp_connection = FALSE /\ sock_open = FALSE /\ leaked = 0
  /\ connection_failures = 0 /\ mlsd_supported = "None" /\ cycle_count = 0
  /\ now = 0 /\ last_download_time = 0 /\ last_cleanup_time = 0
  /\ notified_no_download = FALSE
  /\ attempt = 0 /\ stack = <<>> /\ cur = NoCur /\ ret = 0
  /\ settings \in [delete_after_download : BOOLEAN, EnableFileStability : stability]
  /\ server \in servers
  /\ \E files \in trees :
       /\ rsize = [rp \in RemoteFiles |-> IF rp \in files THEN InitialSize(rp) ELSE 0]
       /\ hist = [NoHist EXCEPT !.tree = files]
  /\ \E mirrored \in mirrors :
       local = IF mirrored THEN Mirrored(rsize) ELSE [p \in LocalPaths |-> NoFile]
  /\ ldirs = IF local = Mirrored(rsize) THEN {"L", "L/sub"} ELSE {}
  /\ net = "up" /\ flips = 0
  /\ ctl = "idle" /\ calls = 0 /\ saw_result = "none"
  /\ gui = NoGui /\ wk = [t \in Threads |-> NoWorker]

\* The engine under network failures and a stop request; the event sink
\* never throws.
Init ==
  InitWith([cycles |-> MaxCycles, flips |-> MaxFlips, calls |-> MaxCalls,
            raises |-> 0, grows |-> 0, dflips |-> 0, probes |-> 0, mails |-> 0],
           {RemoteFiles, RemoteFiles \ {"/data/a.part"}},
           BOOLEAN, [mlsd : BOOLEAN, size : BOOLEAN], BOOLEAN)

\* The scheduler: more cycles, a throwing event sink, both controller calls,
\* over a remote tree of one file in the subdirectory, no stability gate, a
\* server that knows MLSD and SIZE.
InitSched ==
  InitWith([cycles |-> SchedCycles, flips |-> SchedFlips, calls |-> MaxCalls,
            grows |-> 0, dflips |-> 0, probes |-> 0, mails |-> 0,
            raises |-> SchedRaises],
           {{"/data/sub/b"}},
           {FALSE}, {[mlsd |-> TRUE, size |-> TRUE]}, BOOLEAN)

\* what a call of the event sink may do: return, or throw
MayRaise == IF raises < lim.raises THEN BOOLEAN ELSE {FALSE}
\* ------------------------------------------------------------ run(): loop
\* line 55
RunStart ==
  /\ pc = "start"
  /\ is_running' = TRUE
  /\ pc' = "loop"
  /\ UNCHANGED <<raises, stop_event, stopped_event, connVars, connection_failures,
                 mlsd_supported, cycle_count, timeVars, attempt, walkVars, ret,
                 fsVars, envVars, ctlVars, hist>>

\* The local root at the start of a cycle, for the scenarios.
Scenario ==
  IF rsize["/data/a.part"] # 0 \/ rsize["/data/a"] = 0 \/ rsize["/data/sub/b"] = 0
  THEN "other"
  ELSE IF \A p \in LocalPaths : ~Exists(local, p) THEN "empty"
  ELSE IF local = Mirrored(rsize) THEN "mirrored"
  ELSE "other"

\* lines 56-63: the loop test and the head of a cycle.  sinkRaises: one of the
\* emit / log calls of the head throws.
CycleStart ==
  /\ pc = "loop" /\ is_running
  /\ cycle_count < lim.cycles
  /\ cycle_count' = cycle_count + 1
  /\ attempt' = 0
  /\ \E sinkRaises \in MayRaise :
       /\ pc' = IF sinkRaises THEN "except" ELSE "acquire"
       /\ raises' = IF sinkRaises THEN raises + 1 ELSE raises
       /\ hist' = [hist EXCEPT
            !.clean = ~sinkRaises /\ net = "up" /\ ctl = "idle" /\ ~stop_event,
            !.scen = Scenario,
            !.cycErr = IF sinkRaises THEN "run" ELSE "none",
            !.streak = IF hist.streak >= max_connection_failures THEN 0 ELSE @,
            !.resets = IF hist.streak >= max_connection_failures THEN 0 ELSE @,
            !.cfAtStart = connection_failures,
            !.out = "none", !.tornDown = FALSE,
            !.hookEvals = 0, !.hookLdt = 0]
  /\ UNCHANGED <<flagVars, connVars, connection_failures, mlsd_supported,
                 timeVars, walkVars, ret, fsVars, envVars, ctlVars>>

\* A cycle-level error is met (first one is kept).
MarkErr(h, kind) == [h EXCEPT !.cycErr = IF @ = "none" THEN kind ELSE @,
                              !.clean = FALSE]

\* perform_ftp_download returns to run(): one more undisturbed walk, or none.
EndWalk(h) ==
  [h EXCEPT !.cleanRuns = IF h.clean THEN (IF @ >= 2 THEN 2 ELSE @ + 1) ELSE 0]

\* _get_or_create_ftp_connection, one pass of its retry loop (lines 463-496)
\* AcquireAttempt without the liveness probe: the session at hand is torn
\* down and a new connection is made on every call
AcquireWithoutProbe ==
  /\ pc = "acquire"
  /\ IF net = "up"
     THEN /\ ftp_connection' = TRUE /\ sock_open' = TRUE
          /\ leaked' = IF SockAfterCleanup THEN leaked + 1 ELSE leaked
          /\ pc' = "connected"
          /\ hist' = [hist EXCEPT !.sessTries = 0, !.sessListed = FALSE,
                                  !.tornDown = @ \/ ftp_connection]
          /\ UNCHANGED <<attempt, ret>>
     ELSE /\ ftp_connection' = FALSE /\ sock_open' = SockAfterCleanup
          /\ attempt' = attempt + 1
          /\ IF attempt + 1 < max_retries
             THEN /\ pc' = "acquire" /\ ret' = ret
                  /\ hist' = [hist EXCEPT !.tornDown = @ \/ ftp_connection]
             ELSE /\ pc' = "after" /\ ret' = 0
                  /\ hist' = EndWalk(MarkErr(hist, "connect"))
          /\ UNCHANGED leaked
  /\ UNCHANGED <<raises, flagVars, connection_failures, mlsd_supported, cycle_count,
                 timeVars, walkVars, fsVars, envVars, ctlVars>>

AcquireAttempt ==
  /\ pc = "acquire"
  /\ IF ftp_connection /\ OpOK
     THEN \* pwd() answered: reuse
          /\ pc' = "connected"
          /\ UNCHANGED <<connVars, attempt, ret, hist>>
     ELSE IF net = "up"
     THEN \* (dead connection cleaned up,) connect and login succeed
          /\ ftp_connection' = TRUE /\ sock_open' = TRUE
          /\ leaked' = IF SockAfterCleanup THEN leaked + 1 ELSE leaked
          /\ pc' = "connected"
          /\ hist' = [hist EXCEPT !.sessTries = 0, !.sessListed = FALSE,
                                  !.tornDown = @ \/ ftp_connection]
          /\ UNCHANGED <<attempt, ret>>
     ELSE \* (dead connection cleaned up,) connect fails
          /\ ftp_connection' = FALSE /\ sock_open' = SockAfterCleanup
          /\ attempt' = attempt + 1
          /\ IF attempt + 1 < max_retries
             THEN /\ pc' = "acquire" /\ ret' = ret
                  /\ hist' = [hist EXCEPT !.tornDown = @ \/ ftp_connection]
             ELSE \* perform returns 0, line 144
                  /\ pc' = "after" /\ ret' = 0
                  /\ hist' = EndWalk(MarkErr(hist, "connect"))
          /\ UNCHANGED leaked
  /\ UNCHANGED <<raises, flagVars, connection_failures, mlsd_supported, cycle_count,
                 timeVars, walkVars, fsVars, envVars, ctlVars>>

\* _reset_connections (lines 498-503), seen from a history
CountReset(h) == [h EXCEPT !.resets = IF @ >= 2 THEN 2 ELSE @ + 1]

\* perform_ftp_download lines 146-157 once the connection is there: start the
\* walk at the roots, or (the sink throws) reset the connection and return 0.
RootFrame == [rp |-> RemoteRoot, lp |-> LocalRoot, items |-> <<>>, i |-> 1,
              count |-> 0, skip_logs_shown |-> 0]

PerformBegin ==
  /\ pc = "connected"
  /\ \E sinkRaises \in MayRaise :
       /\ raises' = IF sinkRaises THEN raises + 1 ELSE raises
       /\ IF sinkRaises
          THEN /\ ftp_connection' = FALSE /\ sock_open' = SockAfterCleanup
               /\ connection_failures' = 0
               /\ ret' = 0 /\ pc' = "after" /\ stack' = stack
               /\ hist' = CountReset(EndWalk(MarkErr(hist, "perform")))
          ELSE /\ stack' = <<RootFrame>> /\ pc' = "cwd"
               /\ hist' = [hist EXCEPT !.listed = {}, !.visited = {},
                                       !.failed = {}, !.dirFailed = {},
                                       !.skipEvents = 0, !.tornDown = FALSE,
                                       !.published = 0]
               /\ UNCHANGED <<ftp_connection, sock_open, connection_failures,
                              ret>>
  /\ UNCHANGED <<flagVars, leaked, mlsd_supported, cycle_count, timeVars,
                 attempt, cur, fsVars, envVars, ctlVars>>


\* ------------------------------------------------- download_dir_recursive
Top == stack[Len(stack)]
SetTop(f) == [stack EXCEPT ![Len(stack)] = f]

Present(path) == path \in RemoteDirs \/ (path \in RemoteFiles /\ rsize[path] > 0)

\* what the server lists in a directory, in its order
Listing(dir) == SelectSeq(Children(dir), LAMBDA n : Present(RemoteJoin(dir, n)))

\* ftp.mlsd(): name, type and size facts
MlsdEntries(dir) ==
  LET names == Listing(dir)
  IN [k \in 1..Len(names) |->
        LET path == RemoteJoin(dir, names[k])
        IN IF path \in RemoteDirs
           THEN [name |-> names[k], type |-> "dir", fact |-> None]
           ELSE [name |-> names[k], type |-> "file", fact |-> rsize[path]]]

\* NlstEntries without the cwd probe: every name is taken for a file
NlstUnprobed(dir) ==
  LET names == SelectSeq(Listing(dir), LAMBDA n : n \notin {".", ".."})
  IN [k \in 1..Len(names) |->
        [name |-> names[k], type |-> "file", fact |-> None]]

\* ftp.nlst() and the cwd probe of each name (lines 187-197)
NlstEntries(dir) ==
  LET names == SelectSeq(Listing(dir), LAMBDA n : n \notin {".", ".."})
  IN [k \in 1..Len(names) |->
        [name |-> names[k],
         type |-> IF RemoteJoin(dir, names[k]) \in RemoteDirs THEN "dir" ELSE "file",
         fact |-> None]]

\* NlstEntries when the cwd('..') that follows the cwd of the lost-th name
\* raises (lines 191-196): that name is taken for a file, and the names
\* after it are probed from inside it, where none of them is a directory
NlstProbed(dir, lost) ==
  LET names == SelectSeq(Listing(dir), LAMBDA n : n \notin {".", ".."})
  IN [k \in 1..Len(names) |->
        [name |-> names[k],
         type |-> IF RemoteJoin(dir, names[k]) \in RemoteDirs /\ k < lost
                  THEN "dir" ELSE "file",
         fact |-> None]]

\* which restoring cwd('..') of a listing may raise: none (0), or the one
\* after the cwd into a directory of the listing
ProbeLoss(dir) ==
  IF hist.restoreLost < lim.probes
  THEN {0} \cup {k \in 1..Len(Listing(dir)) :
                   RemoteJoin(dir, Listing(dir)[k]) \in RemoteDirs}
  ELSE {0}

\* ftp.size(path): the size, or None when the command fails
SizeOf(path) == IF OpOK /\ server.size /\ rsize[path] > 0 THEN rsize[path] ELSE None

\* `return count` of the innermost frame (line 373): to the caller's loop, or
\* out of perform_ftp_download.
ReturnFrom(frames, h) ==
  IF Len(frames) = 1
  THEN /\ stack' = <<>> /\ ret' = frames[1].count /\ pc' = "after"
       /\ hist' = EndWalk(h)
  ELSE /\ stack' = [SubSeq(frames, 1, Len(frames) - 1) EXCEPT
                      ![Len(frames) - 1].count = @ + frames[Len(frames)].count]
       /\ ret' = ret /\ pc' = "item" /\ hist' = h

ReturnFrame(h) == ReturnFrom(stack, h)

\* AfterDirError of a handler that passes the error on to the caller: the
\* caller's loop over its entries is left as well
DirErrorUnwinds(frames) ==
  IF Len(frames) = 1 THEN frames
  ELSE [frames EXCEPT ![Len(frames) - 1].i =
                         Len(frames[Len(frames) - 1].items) + 1]

\* lines 370-372: the handler of a directory's error logs it and falls
\* through to `return count`; the caller's frame is as it was
AfterDirError(frames) == frames

\* the directory's walk ended in the handler of line 370, or its listing
\* came back empty because MLSD and NLST both failed
MarkDirFailed(h, rp) == [h EXCEPT !.dirFailed = @ \cup {rp}]

\* lines 163-165: cwd and makedirs; a failure is caught at line 370
ChangeDir ==
  /\ pc = "cwd"
  /\ IF OpOK /\ (Top.lp \in ldirs \/ LocalOK)
     THEN /\ ldirs' = ldirs \cup {Top.lp}
          /\ pc' = "list"
          /\ UNCHANGED <<stack, ret, hist>>
     ELSE /\ ReturnFrom(AfterDirError(stack),
                        MarkDirFailed(IF Len(stack) = 1
                                      THEN MarkErr(hist, "toplevel") ELSE hist,
                                      Top.rp))
          /\ ldirs' = ldirs
  /\ UNCHANGED <<raises, flagVars, connVars, connection_failures, mlsd_supported,
                 cycle_count, timeVars, attempt, cur, rsize, local, envVars,
                 ctlVars>>

\* lines 170-175: _mlsd_supported after an MLSD attempt
ModeAfterMlsd(mode, ok) == IF ok THEN "True" ELSE "False"

\* lines 166-197: MLSD when not known unsupported, else (or when it gave
\* nothing) NLST with the cwd probe
ListDir ==
  /\ pc = "list"
  /\ \E lost \in ProbeLoss(Top.rp) :
     LET tryMlsd == mlsd_supported # "False"
         mlsdOK == tryMlsd /\ OpOK /\ server.mlsd
         fromMlsd == IF mlsdOK THEN MlsdEntries(Top.rp) ELSE <<>>
         items == IF fromMlsd # <<>> THEN fromMlsd
                  ELSE IF ~OpOK THEN <<>>
                  ELSE IF lost = 0 THEN NlstEntries(Top.rp)
                  ELSE NlstProbed(Top.rp, lost)
         h == [hist EXCEPT !.restoreLost = IF lost = 0 THEN @ ELSE @ + 1,
                           !.mlsdFailed = @ \/ (tryMlsd /\ ~mlsdOK),
                           !.reprobe = @ \/ (tryMlsd /\ hist.mlsdFailed),
                           !.sessTries = IF tryMlsd /\ @ < 2 THEN @ + 1 ELSE @,
                           !.sessListed = TRUE,
                           !.lastList = IF ~mlsdOK THEN "nlst"
                                        ELSE IF fromMlsd # <<>> THEN "mlsd"
                                        ELSE "mlsd+nlst",
                           !.listed = @ \cup {RemoteJoin(Top.rp, items[k].name) :
                                                k \in 1..Len(items)}]
     IN /\ mlsd_supported' = IF ~tryMlsd THEN mlsd_supported
                             ELSE ModeAfterMlsd(mlsd_supported, mlsdOK)
        /\ stack' = SetTop([Top EXCEPT !.items = items, !.i = 1])
        /\ hist' = IF ~OpOK
                   THEN MarkDirFailed(IF Len(stack) = 1
                                      THEN MarkErr(h, "toplevel") ELSE h, Top.rp)
                   ELSE h
  /\ pc' = "item"
  /\ UNCHANGED <<raises, flagVars, connVars, connection_failures, cycle_count, timeVars,
                 attempt, cur, ret, fsVars, envVars, ctlVars>>

\* DeleteWanted of a walk that does not look at the setting
DeleteAlways == TRUE

\* lines 233 and 359: self.settings.get('delete_after_download')
DeleteWanted == settings.delete_after_download

\* AfterFileError of an error that the handler of the directory (line 370)
\* gets instead: the loop over the entries of the innermost frame is left
ErrorEndsDirectory(frames) ==
  [frames EXCEPT ![Len(frames)].i = Len(frames[Len(frames)].items) + 1]

\* lines 367-369: the handler of a file's error is the last statement of the
\* loop body; the frames are as they were and the loop takes the next entry
AfterFileError(frames) == frames

\* the file's outcome after the handler of lines 367-369
MarkFailed(h, rp) == [h EXCEPT !.out = "failed", !.failed = @ \cup {rp}]

\* lines 313-342: open the temporary file and send RETR
BeginTransfer(c, h, frames) ==
  IF ~LocalOK
  THEN \* open() fails
       /\ local' = local /\ cur' = NoCur /\ pc' = "item"
       /\ stack' = AfterFileError(frames)
       /\ hist' = MarkFailed(h, c.rp)
  ELSE /\ local' = [local EXCEPT ![TempPath(c.lp)] = [len |-> 0, whole |-> FALSE]]
       /\ IF OpOK /\ rsize[c.rp] > 0
          THEN /\ cur' = [c EXCEPT !.sent = 0, !.total = rsize[c.rp]]
               /\ pc' = "retr" /\ hist' = h /\ stack' = frames
          ELSE /\ cur' = NoCur /\ pc' = "item"
               /\ stack' = AfterFileError(frames)
               /\ hist' = MarkFailed(h, c.rp)

\* lines 204-244: the next entry of the innermost frame
ProcessItem ==
  /\ pc = "item"
  /\ IF Top.i > Len(Top.items)
     THEN /\ ReturnFrame(hist)
          /\ UNCHANGED <<cur, local>>
     ELSE LET e == Top.items[Top.i]
              rp == RemoteJoin(Top.rp, e.name)
              lp == LocalJoin(Top.lp, e.name)
              advanced == SetTop([Top EXCEPT !.i = @ + 1])
              remote_size == SizeOf(rp)
              c == [NoCur EXCEPT !.rp = rp, !.lp = lp, !.fact = e.fact,
                                 !.remote_size = remote_size]
              h == [hist EXCEPT !.out = "none", !.unk = remote_size = None,
                                !.fresh = ~Exists(local, lp), !.initKnown = FALSE,
                                !.changing = FALSE, !.visited = @ \cup {rp}]
          IN /\ ret' = ret
             /\ IF e.type = "dir"
                THEN /\ stack' = Append(advanced, [rp |-> rp, lp |-> lp,
                                                   items |-> <<>>, i |-> 1,
                                                   count |-> 0,
                                                   skip_logs_shown |-> 0])
                     /\ pc' = "cwd"
                     /\ hist' = [hist EXCEPT !.visited = @ \cup {rp}]
                     /\ UNCHANGED <<cur, local>>
                ELSE IF Exists(local, lp) /\ remote_size # None
                        /\ local[lp].len = remote_size
                     THEN \* already downloaded: skip, lines 225-241; the skip
                          \* is reported while this call has reported fewer
                          \* than skip_log_limit
                          LET shown == Top.skip_logs_shown < skip_log_limit
                              hs == [h EXCEPT !.skipEvents =
                                                IF shown THEN @ + 1 ELSE @]
                          IN /\ local' = local
                             /\ stack' = [advanced EXCEPT
                                            ![Len(stack)].skip_logs_shown =
                                               IF shown THEN @ + 1 ELSE @]
                             /\ IF DeleteWanted
                                THEN cur' = c /\ pc' = "skipdel" /\ hist' = hs
                                ELSE /\ cur' = NoCur /\ pc' = "item"
                                     /\ hist' = [hs EXCEPT !.out = "skipped"]
                     ELSE IF settings.EnableFileStability /\ PollBudget > 0
                     THEN /\ cur' = c /\ pc' = "stab" /\ hist' = h
                          /\ local' = local /\ stack' = advanced
                     ELSE BeginTransfer(c, h, advanced)
  /\ UNCHANGED <<raises, flagVars, connVars, connection_failures, mlsd_supported,
                 cycle_count, timeVars, attempt, rsize, ldirs, envVars, ctlVars>>


\* SkipDelete with the remote delete of a skipped file forgotten
SkipWithoutDelete ==
  /\ pc = "skipdel"
  /\ hist' = [hist EXCEPT !.out = "skipped"]
  /\ cur' = NoCur /\ pc' = "item"
  /\ UNCHANGED <<raises, flagVars, connVars, connection_failures,
                 mlsd_supported, cycle_count, timeVars, attempt, stack, ret,
                 fsVars, envVars, ctlVars>>

\* lines 233-241: remote delete of a file skipped as already downloaded
SkipDelete ==
  /\ pc = "skipdel"
  /\ rsize' = IF OpOK /\ rsize[cur.rp] > 0 THEN [rsize EXCEPT ![cur.rp] = 0]
              ELSE rsize
  /\ hist' = [hist EXCEPT !.out = IF OpOK /\ rsize[cur.rp] > 0 THEN "deleted"
                                  ELSE "skipped"]
  /\ cur' = NoCur /\ pc' = "item"
  /\ UNCHANGED <<raises, flagVars, connVars, connection_failures, mlsd_supported,
                 cycle_count, timeVars, attempt, stack, ret, local, ldirs,
                 envVars, ctlVars>>

\* StabilityStart with a file of unknown size treated as unstable
StabilityStartStrict ==
  /\ pc = "stab"
  /\ LET initial_size == IF cur.fact # None THEN cur.fact ELSE SizeOf(cur.rp)
     IN IF initial_size = None
        THEN /\ cur' = NoCur /\ pc' = "item" /\ local' = local
             /\ hist' = [hist EXCEPT !.out = "unstable"]
        ELSE /\ cur' = [cur EXCEPT !.prev_size = initial_size,
                                   !.stable_count = 1, !.polls = 0,
                                   !.before = None, !.changes = 0]
             /\ pc' = "poll" /\ local' = local
             /\ hist' = [hist EXCEPT !.initKnown = TRUE]
  /\ UNCHANGED <<raises, flagVars, connVars, connection_failures,
                 mlsd_supported, cycle_count, timeVars, attempt, stack, ret,
                 rsize, ldirs, envVars, ctlVars>>

\* lines 257-283: the initial size of the stability gate
StabilityStart ==
  /\ pc = "stab"
  /\ LET initial_size == IF cur.fact # None THEN cur.fact ELSE SizeOf(cur.rp)
     IN IF initial_size = None
        THEN BeginTransfer(cur, hist, stack)
        ELSE /\ cur' = [cur EXCEPT !.prev_size = initial_size,
                                   !.stable_count = 1, !.polls = 0,
                                   !.before = None, !.changes = 0]
             /\ pc' = "poll" /\ local' = local /\ stack' = stack
             /\ hist' = [hist EXCEPT !.initKnown = TRUE]
  /\ UNCHANGED <<raises, flagVars, connVars, connection_failures, mlsd_supported,
                 cycle_count, timeVars, attempt, ret, rsize, ldirs,
                 envVars, ctlVars>>

\* NextStableCount with a failed read leaving the counter as it is
NextStableLenient(stable_count, prev_size, cur_size) ==
  IF cur_size # None /\ cur_size = prev_size THEN stable_count + 1
  ELSE IF cur_size # None THEN 1 ELSE stable_count

\* NextStableCount counting every successful read, equal or not
NextStableAny(stable_count, prev_size, cur_size) ==
  IF cur_size # None THEN stable_count + 1 ELSE 0

\* NextStableCount with the increment for an equal read forgotten
NextStableNoIncrement(stable_count, prev_size, cur_size) ==
  IF cur_size # None THEN 1 ELSE 0

\* lines 291-294: the consecutive-equal counter after one size read
NextStableCount(stable_count, prev_size, cur_size) ==
  IF cur_size # None /\ cur_size = prev_size THEN stable_count + 1
  ELSE IF cur_size # None THEN 1 ELSE 0

\* lines 285-310: one pass of the polling loop, or its timeout
Poll ==
  /\ pc = "poll"
  /\ IF cur.polls >= PollBudget
     THEN \* unstable: the file is left for the next cycle
          /\ cur' = NoCur /\ pc' = "item" /\ local' = local /\ stack' = stack
          /\ hist' = [hist EXCEPT !.out = "unstable", !.unstableBefore = TRUE,
                                  !.changing = cur.changes = cur.polls]
     ELSE LET cur_size == SizeOf(cur.rp)
              n == NextStableCount(cur.stable_count, cur.prev_size, cur_size)
              c == [cur EXCEPT !.stable_count = n, !.prev_size = cur_size,
                               !.before = cur.prev_size,
                               !.changes = IF cur_size \notin {None, cur.prev_size}
                                           THEN @ + 1 ELSE @,
                               !.polls = @ + 1]
          IN IF n >= required_stable_count
             THEN BeginTransfer(c, [hist EXCEPT !.changing = c.changes = c.polls],
                                stack)
             ELSE /\ cur' = c /\ pc' = "poll" /\ local' = local
                  /\ hist' = hist /\ stack' = stack
  /\ UNCHANGED <<raises, flagVars, connVars, connection_failures, mlsd_supported,
                 cycle_count, timeVars, attempt, ret, rsize, ldirs,
                 envVars, ctlVars>>

\* lines 346-351: os.replace(temp_local, local_item_path)
Publish(fs, lp) ==
  [fs EXCEPT ![lp] = [len |-> fs[TempPath(lp)].len, whole |-> TRUE],
             ![TempPath(lp)] = NoFile]

\* lines 319-325 and 342: the next chunk reaches _write_and_count, or the
\* stream breaks
\* TransferAborted of a callback that does not look at the stop event
NeverAborted == FALSE

\* lines 322-324: the callback raises InterruptedError when the stop event
\* is set
TransferAborted == stop_event

RetrChunk ==
  /\ pc = "retr" /\ cur.sent < cur.total
  /\ IF OpOK /\ ~TransferAborted /\ LocalOK
     THEN /\ local' = [local EXCEPT ![TempPath(cur.lp)].len = @ + 1]
          /\ cur' = [cur EXCEPT !.sent = @ + 1]
          /\ pc' = "retr" /\ hist' = hist /\ stack' = stack
     ELSE \* socket error, InterruptedError or a failed write, caught at
          \* line 367
          /\ cur' = NoCur /\ pc' = "item" /\ local' = local
          /\ stack' = AfterFileError(stack)
          /\ hist' = MarkFailed(hist, cur.rp)
  /\ UNCHANGED <<raises, flagVars, connVars, connection_failures, mlsd_supported,
                 cycle_count, timeVars, attempt, ret, rsize, ldirs,
                 envVars, ctlVars>>

\* CountAfterPublish of a walk that forgets to count
CountNotRaised(count) == count

\* line 357: count += 1
CountAfterPublish(count) == count + 1

\* lines 342-358: the stream ends, the file is moved into place and counted
RetrDone ==
  /\ pc = "retr" /\ cur.sent = cur.total
  /\ IF OpOK /\ LocalOK
     THEN /\ local' = Publish(local, cur.lp)
          /\ stack' = SetTop([Top EXCEPT !.count = CountAfterPublish(@)])
          /\ hist' = [hist EXCEPT !.out = "downloaded", !.published = @ + 1]
          /\ IF DeleteWanted
             THEN cur' = cur /\ pc' = "postdel"
             ELSE cur' = NoCur /\ pc' = "item"
     ELSE \* the final reply of RETR is lost, or os.replace and os.rename
          \* both fail
          /\ cur' = NoCur /\ pc' = "item"
          /\ stack' = AfterFileError(stack)
          /\ hist' = MarkFailed(hist, cur.rp)
          /\ local' = local
  /\ UNCHANGED <<raises, flagVars, connVars, connection_failures, mlsd_supported,
                 cycle_count, timeVars, attempt, ret, rsize, ldirs, envVars,
                 ctlVars>>

\* lines 359-366: remote delete after the download
PostDelete ==
  /\ pc = "postdel"
  /\ rsize' = IF OpOK /\ rsize[cur.rp] > 0 THEN [rsize EXCEPT ![cur.rp] = 0]
              ELSE rsize
  /\ cur' = NoCur /\ pc' = "item"
  /\ UNCHANGED <<raises, flagVars, connVars, connection_failures, mlsd_supported,
                 cycle_count, timeVars, attempt, stack, ret, local, ldirs,
                 envVars, ctlVars, hist>>


\* ------------------------------------------------------ run(): cycle tail
\* the cycle is over: the run of failed cycles grows or ends
EndCycle(h) ==
  [h EXCEPT !.streak = IF h.cycErr = "none" THEN 0 ELSE @ + 1,
            !.resets = IF h.cycErr = "none" THEN 0 ELSE @,
            !.clean = FALSE, !.scen = "other", !.out = "none",
            !.unk = FALSE, !.fresh = FALSE, !.initKnown = FALSE,
            !.changing = FALSE,
            !.listed = {}, !.visited = {}, !.failed = {}, !.dirFailed = {},
            !.skipEvents = 0, !.tornDown = FALSE, !.lastList = "none",
            !.published = 0,
            !.sigRetr = FALSE, !.sigMore = FALSE, !.sigSent = 0,
            !.sigDest = NoFile, !.sigInPoll = FALSE, !.sigPollAt = 0]

\* _perform_periodic_cleanup (lines 518-532)
CleanupDue == now - last_cleanup_time >= cleanup_interval

\* lines 67-69: with the notified flag cleared the count of alerts that
\* were delivered since the last download starts again
AlertsAfterCount(h, count) == [h EXCEPT !.alerts = IF count > 0 THEN 0 ELSE @]

\* FailuresAfterCount with the reset on success forgotten
FailuresKept(count, failures) == failures

\* lines 67-70: the value of _connection_failures after a cycle's count
FailuresAfterCount(count, failures) == IF count > 0 THEN 0 ELSE failures

\* lines 66-78: the count is reported and folded into the scheduler's state,
\* then the periodic cleanup.  raise: the emit of line 66 ("early") or a call
\* of lines 72-75 ("late") throws.
AfterDownload ==
  /\ pc = "after"
  /\ \E raise \in {"no"} \cup (IF TRUE \in MayRaise THEN {"early", "late"} ELSE {}) :
       /\ raises' = IF raise = "no" THEN raises ELSE raises + 1
       /\ IF raise = "early"
          THEN UNCHANGED <<last_download_time, notified_no_download,
                           connection_failures>>
          ELSE /\ last_download_time' = IF ret > 0 THEN now ELSE last_download_time
               /\ notified_no_download' = IF ret > 0 THEN FALSE
                                          ELSE notified_no_download
               /\ connection_failures' = FailuresAfterCount(ret, connection_failures)
       /\ IF raise = "no"
          THEN /\ pc' = "wait"
               /\ hist' = EndCycle(AlertsAfterCount(hist, ret))
               /\ IF CleanupDue
                  THEN /\ ftp_connection' = FALSE /\ sock_open' = SockAfterCleanup
                       /\ last_cleanup_time' = now
                  ELSE UNCHANGED <<ftp_connection, sock_open, last_cleanup_time>>
          ELSE /\ pc' = "except"
               /\ hist' = MarkErr(IF raise = "late"
                                  THEN AlertsAfterCount(hist, ret) ELSE hist,
                                  "run")
               /\ UNCHANGED <<ftp_connection, sock_open, last_cleanup_time>>
  /\ UNCHANGED <<flagVars, leaked, mlsd_supported, cycle_count, now, attempt,
                 walkVars, ret, fsVars, envVars, ctlVars>>

\* ExceptHandler leaving the loop instead of waiting for the next cycle
ExceptEndsLoop ==
  /\ pc = "except"
  /\ connection_failures' = connection_failures + 1
  /\ hist' = EndCycle(hist)
  /\ pc' = "signal"
  /\ UNCHANGED <<raises, flagVars, connVars, mlsd_supported, cycle_count,
                 timeVars, attempt, walkVars, ret, fsVars, envVars, ctlVars>>

\* lines 82-89: the handler of the loop
ExceptHandler ==
  /\ pc = "except"
  /\ IF connection_failures + 1 >= max_connection_failures
     THEN \* _reset_connections
          /\ ftp_connection' = FALSE /\ sock_open' = SockAfterCleanup
          /\ connection_failures' = 0
          /\ hist' = EndCycle(CountReset(hist))
     ELSE /\ connection_failures' = connection_failures + 1
          /\ hist' = EndCycle(hist)
          /\ UNCHANGED <<ftp_connection, sock_open>>
  /\ pc' = "waitErr"
  /\ UNCHANGED <<raises, flagVars, leaked, mlsd_supported, cycle_count, timeVars,
                 attempt, walkVars, ret, fsVars, envVars, ctlVars>>

\* WaitReturns of a wait made with time.sleep: the whole time passes
SleepReturns ==
  /\ now' = now + 1
  /\ pc' = "finally"
  /\ hist' = [hist EXCEPT !.cycErr = "none", !.cfAtStart = 0,
                          !.cut = IF stop_event THEN pc ELSE @]
  /\ UNCHANGED <<raises, flagVars, connVars, connection_failures,
                 mlsd_supported, cycle_count, last_download_time,
                 last_cleanup_time, notified_no_download, attempt, walkVars, ret,
                 fsVars, envVars, ctlVars>>

\* stop_event.wait(seconds): returns at once when the event is set, else when
\* the time is over
WaitReturns ==
  /\ now' = IF stop_event THEN now ELSE now + 1
  /\ pc' = "finally"
  /\ hist' = [hist EXCEPT !.cycErr = "none", !.cfAtStart = 0,
                          !.cut = IF stop_event THEN pc ELSE @]
  /\ UNCHANGED <<raises, flagVars, connVars, connection_failures,
                 mlsd_supported, cycle_count, last_download_time,
                 last_cleanup_time, notified_no_download, attempt, walkVars, ret,
                 fsVars, envVars, ctlVars>>

\* line 80
WaitInterval == pc = "wait" /\ WaitReturns

\* line 91
WaitAfterError == pc = "waitErr" /\ WaitReturns

\* check_monitoring_and_notify and send_email_notification (lines 418-458,
\* 375-416) when an alert is due: no mail leaves, because the time is outside
\* the working hours, the settings are incomplete, or connecting, login or
\* sendmail raises ("none"); all of it succeeds ("sent"); sendmail succeeds
\* and the quit() or a log call after it raises, so that line 413 is not
\* reached ("delivered_unconfirmed")
MailOutcomes ==
  {"none", "sent"}
    \cup (IF hist.unconfirmed < lim.mails THEN {"delivered_unconfirmed"} ELSE {})

\* the mail reached the recipients
Delivered(mail) == mail \in {"sent", "delivered_unconfirmed"}

\* HookRuns of a finally clause that never calls the hook
HookSkipped(running) == FALSE

\* lines 93-94: check_monitoring_and_notify is called when is_running holds
HookRuns(running) == running

\* lines 92-94 with check_monitoring_and_notify (418-458) and
\* send_email_notification (375-416).  inWindow: today and the time of day
\* are inside the schedule; sent: the mail went out.
Finally ==
  /\ pc = "finally"
  /\ \E mail \in MailOutcomes :
       LET due == /\ HookRuns(is_running)
                  /\ now - last_download_time > notify_threshold
                  /\ ~notified_no_download
       IN /\ notified_no_download' =
               IF due /\ mail = "sent" THEN TRUE ELSE notified_no_download
          /\ hist' = [hist EXCEPT !.cut = "none",
                          !.alerts = IF due /\ Delivered(mail) /\ @ < 2
                                     THEN @ + 1 ELSE @,
                          !.unconfirmed = IF due /\ mail = "delivered_unconfirmed"
                                          THEN @ + 1 ELSE @,
                          !.hookEvals = IF HookRuns(is_running) THEN @ + 1 ELSE @,
                          !.hookLdt = IF HookRuns(is_running)
                                      THEN last_download_time ELSE @]
  /\ pc' = "loop"
  /\ UNCHANGED <<raises, flagVars, connVars, connection_failures, mlsd_supported,
                 cycle_count, now, last_download_time, last_cleanup_time,
                 attempt, walkVars, ret, fsVars, envVars, ctlVars>>

\* lines 56 and 96-97: the loop ends, final _cleanup_connections
ExitLoop ==
  /\ pc = "loop" /\ ~is_running
  /\ ftp_connection' = FALSE /\ sock_open' = SockAfterCleanup
  /\ pc' = "signal"
  /\ hist' = [hist EXCEPT !.hookEvals = 0, !.hookLdt = 0]
  /\ UNCHANGED <<raises, flagVars, leaked, connection_failures, mlsd_supported,
                 cycle_count, timeVars, attempt, walkVars, ret, fsVars, envVars,
                 ctlVars>>

\* lines 98-103
SignalStopped ==
  /\ pc = "signal"
  /\ stopped_event' = TRUE
  /\ pc' = "stopped"
  /\ UNCHANGED <<raises, is_running, stop_event, connVars, connection_failures,
                 mlsd_supported, cycle_count, timeVars, attempt, walkVars, ret,
                 fsVars, envVars, ctlVars, hist>>

\* ---------------------------------------------------- controlling thread
Requested(h) == [h EXCEPT !.stopReq = TRUE, !.clean = FALSE,
                          !.sigRetr = pc = "retr",
                          !.sigMore = pc = "retr" /\ cur.sent < cur.total,
                          !.sigSent = IF pc = "retr" THEN cur.sent ELSE 0,
                          !.sigDest = IF pc = "retr" THEN local[cur.lp]
                                      ELSE NoFile,
                          !.sigInPoll = pc = "poll",
                          !.sigPollAt = IF pc = "poll" THEN cur.polls ELSE 0]

\* stop(), lines 107-109, up to the quit of _cleanup_connections (507-514)
StopBegin ==
  /\ ctl = "idle" /\ calls < lim.calls
  /\ calls' = calls + 1
  /\ is_running' = FALSE /\ stop_event' = TRUE
  /\ IF ftp_connection
     THEN sock_open' = FALSE /\ ctl' = "stop_fin"
     ELSE sock_open' = sock_open /\ ctl' = "idle"
  /\ hist' = Requested(hist)
  /\ UNCHANGED <<raises, pc, stopped_event, ftp_connection, leaked, connection_failures,
                 mlsd_supported, cycle_count, timeVars, attempt, walkVars, ret,
                 fsVars, envVars, saw_result>>

\* stop(): the finally clause of _cleanup_connections (line 516)
StopFinish ==
  /\ ctl = "stop_fin"
  /\ ftp_connection' = FALSE
  /\ ctl' = "idle"
  /\ UNCHANGED <<raises, pc, flagVars, sock_open, leaked, connection_failures,
                 mlsd_supported, cycle_count, timeVars, attempt, walkVars, ret,
                 fsVars, envVars, calls, saw_result, hist>>

\* stop_and_wait(), lines 123-129: clear the stopped event, signal the stop
SawBegin ==
  /\ ctl = "idle" /\ calls < lim.calls
  /\ calls' = calls + 1
  /\ stopped_event' = FALSE
  /\ is_running' = FALSE /\ stop_event' = TRUE
  /\ ctl' = "saw_wait"
  /\ hist' = Requested(hist)
  /\ UNCHANGED <<raises, pc, connVars, connection_failures, mlsd_supported,
                 cycle_count, timeVars, attempt, walkVars, ret, fsVars, envVars,
                 saw_result>>

\* stop_and_wait(), line 132: the event is set, or the timeout is over
SawReturn ==
  /\ ctl = "saw_wait"
  /\ saw_result' = IF stopped_event THEN "True" ELSE "False"
  /\ ctl' = "idle"
  /\ UNCHANGED <<raises, pc, flagVars, connVars, connection_failures, mlsd_supported,
                 cycle_count, timeVars, attempt, walkVars, ret, fsVars, envVars,
                 calls, hist>>

\* ------------------------------------------------------------ environment
\* the network goes down or comes back
NetFlip ==
  /\ flips < lim.flips
  /\ flips' = flips + 1
  /\ net' = IF net = "up" THEN "down" ELSE "up"
  /\ hist' = [hist EXCEPT !.clean = FALSE]
  /\ UNCHANGED <<raises, pc, flagVars, connVars, connection_failures, mlsd_supported,
                 cycle_count, timeVars, attempt, walkVars, ret, fsVars, settings,
                 server, lim, guiVars, diskVars, ctlVars>>

\* the local disk fills up or is writable again
DiskFlip ==
  /\ dflips < lim.dflips
  /\ dflips' = dflips + 1
  /\ disk' = IF disk = "ok" THEN "full" ELSE "ok"
  /\ hist' = [hist EXCEPT !.clean = FALSE]
  /\ UNCHANGED <<raises, pc, flagVars, connVars, connection_failures, mlsd_supported,
                 cycle_count, timeVars, attempt, walkVars, ret, fsVars, settings,
                 server, net, flips, lim, guiVars, ctlVars, logf>>

\* the producer of a remote file appends to it
RemoteGrow ==
  /\ \E f \in RemoteFiles :
       /\ rsize[f] > 0 /\ rsize[f] - InitialSize(f) < lim.grows
       /\ rsize' = [rsize EXCEPT ![f] = @ + 1]
  /\ hist' = [hist EXCEPT !.clean = FALSE]
  /\ UNCHANGED <<raises, pc, flagVars, connVars, connection_failures, mlsd_supported,
                 cycle_count, timeVars, attempt, walkVars, ret, local, ldirs,
                 envVars, ctlVars>>

Worker ==
  \/ RunStart \/ CycleStart \/ AcquireAttempt \/ PerformBegin
  \/ ChangeDir \/ ListDir \/ ProcessItem \/ SkipDelete
  \/ StabilityStart \/ Poll \/ RetrChunk \/ RetrDone \/ PostDelete
  \/ AfterDownload \/ ExceptHandler \/ WaitInterval \/ WaitAfterError
  \/ Finally \/ ExitLoop \/ SignalStopped

Controller == StopBegin \/ StopFinish \/ SawBegin \/ SawReturn

Next ==
  \/ RunStart \/ CycleStart \/ AcquireAttempt \/ PerformBegin
  \/ ChangeDir \/ ListDir \/ ProcessItem \/ SkipDelete
  \/ StabilityStart \/ Poll \/ RetrChunk \/ RetrDone \/ PostDelete
  \/ AfterDownload \/ WaitInterval \/ Finally \/ ExitLoop \/ SignalStopped
  \/ StopBegin \/ StopFinish \/ NetFlip

Spec == Init /\ [][Next]_vars

NextSched ==
  \/ RunStart \/ CycleStart \/ AcquireAttempt \/ PerformBegin
  \/ ChangeDir \/ ListDir \/ ProcessItem \/ SkipDelete
  \/ RetrChunk \/ RetrDone \/ PostDelete
  \/ AfterDownload \/ ExceptHandler \/ WaitInterval \/ WaitAfterError
  \/ Finally \/ ExitLoop \/ SignalStopped
  \/ Controller \/ NetFlip

SpecSched == InitSched /\ [][NextSched]_vars

\* Stopping: stop() and stop_and_wait() called one after the other, in either
\* order, while the worker runs one cycle over one file
InitStop ==
  InitWith([cycles |-> 1, flips |-> 0, calls |-> StopCalls,
            raises |-> 0, grows |-> 0, dflips |-> 0, probes |-> 0, mails |-> 0],
           {{"/data/a"}}, {FALSE}, [mlsd : BOOLEAN, size : BOOLEAN], BOOLEAN)

NextStop ==
  \/ RunStart \/ CycleStart \/ AcquireAttempt \/ PerformBegin
  \/ ChangeDir \/ ListDir \/ ProcessItem
  \/ RetrChunk \/ RetrDone \/ PostDelete
  \/ AfterDownload \/ WaitInterval
  \/ Finally \/ ExitLoop \/ SignalStopped
  \/ StopBegin \/ StopFinish \/ SawBegin \/ SawReturn

SpecStop == InitStop /\ [][NextStop]_vars

\* ------------------------------------------------------------ log file
\* _DailySizeRotatingHandler (logger.py): maxBytes is MaxBytes, a record is
\* the formatted message, written followed by a line end
RecordSizes == 1..(MaxBytes - 3)

\* lines 111-125
shouldRollover(f, incoming_size) ==
  \/ f.day # f.current_date
  \/ f.size + incoming_size >= MaxBytes

\* lines 176-188: the newest backupCount rotated files are kept
KeepNewest(S) == {i \in S : Cardinality({j \in S : j > i}) < backupCount}

\* lines 127-189.  replaceOK: os.replace or os.rename succeeds
doRollover(f, replaceOK) ==
  IF f.day # f.current_date
  THEN [f EXCEPT !.current_date = f.day, !.size = 0, !.rotated = {},
                 !.rolled = TRUE]
  ELSE LET max_idx == IF f.rotated = {} THEN 0
                      ELSE CHOOSE i \in f.rotated : \A j \in f.rotated : j <= i
           next_idx == max_idx + 1
       IN IF replaceOK
          THEN [f EXCEPT !.size = 0,
                         !.rotated = KeepNewest(@ \cup {next_idx}),
                         !.rolled = TRUE]
          ELSE [f EXCEPT !.replaceFailed = TRUE]

\* lines 88-99: the handler opens today's file; the stream is a text stream,
\* whose line end is one byte or two, by platform
OpenLog ==
  /\ ~logf.open
  /\ \E n \in {1, 2} : logf' = [logf EXCEPT !.open = TRUE, !.nl = n]
  /\ UNCHANGED <<raises, pc, flagVars, connVars, connection_failures,
                 mlsd_supported, cycle_count, timeVars, attempt, walkVars, ret,
                 fsVars, settings, server, net, flips, lim, guiVars, disk,
                 dflips, ctlVars, hist>>

\* lines 101-109: emit of one record
LogWrite ==
  /\ logf.open /\ logf.writes < MaxWrites
  /\ \E incoming \in RecordSizes, replaceOK \in BOOLEAN :
       LET f0 == [logf EXCEPT !.writes = @ + 1, !.rolled = FALSE,
                              !.needed = logf.size + incoming >= MaxBytes]
           f1 == IF shouldRollover(f0, incoming) THEN doRollover(f0, replaceOK)
                 ELSE f0
       IN logf' = [f1 EXCEPT !.size = @ + incoming + f1.nl]
  /\ UNCHANGED <<raises, pc, flagVars, connVars, connection_failures,
                 mlsd_supported, cycle_count, timeVars, attempt, walkVars, ret,
                 fsVars, settings, server, net, flips, lim, guiVars, disk,
                 dflips, ctlVars, hist>>

\* midnight
DayChange ==
  /\ logf.open /\ logf.day < MaxDays
  /\ logf' = [logf EXCEPT !.day = @ + 1]
  /\ UNCHANGED <<raises, pc, flagVars, connVars, connection_failures,
                 mlsd_supported, cycle_count, timeVars, attempt, walkVars, ret,
                 fsVars, settings, server, net, flips, lim, guiVars, disk,
                 dflips, ctlVars, hist>>

InitLog ==
  InitWith([cycles |-> 0, flips |-> 0, calls |-> 0, raises |-> 0, grows |-> 0,
            dflips |-> 0, probes |-> 0, mails |-> 0],
           {{"/data/a"}}, {FALSE}, {[mlsd |-> TRUE, size |-> TRUE]}, {FALSE})

NextLog == OpenLog \/ LogWrite \/ DayChange

SpecLog == InitLog /\ [][NextLog]_vars

\* Fallback listing: the walk up to the listing of the root directory, on a
\* server without MLSD, where a restoring cwd('..') may raise
InitProbe ==
  InitWith([cycles |-> 1, flips |-> ProbeFlips, calls |-> 0, raises |-> 0,
            grows |-> 0, dflips |-> 0, probes |-> MaxProbeLoss, mails |-> 0],
           {RemoteFiles, {"/data/a"}}, BOOLEAN,
           [mlsd : {FALSE}, size : BOOLEAN], BOOLEAN)

NextProbe ==
  \/ RunStart \/ CycleStart \/ AcquireAttempt \/ PerformBegin
  \/ ChangeDir \/ ListDir \/ NetFlip

SpecProbe == InitProbe /\ [][NextProbe]_vars

\* Alerts: cycles over one file that is there already or is downloaded in
\* the first cycle, no stop, no network fault; a mail may be delivered and
\* its sending still end in an exception
InitMail ==
  InitWith([cycles |-> MailCycles, flips |-> 0, calls |-> 0, raises |-> 0,
            grows |-> 0, dflips |-> 0, probes |-> 0, mails |-> MaxMailLoss],
           {{"/data/a"}}, {FALSE}, [mlsd : BOOLEAN, size : BOOLEAN], BOOLEAN)

NextMail ==
  \/ RunStart \/ CycleStart \/ AcquireAttempt \/ PerformBegin
  \/ ChangeDir \/ ListDir \/ ProcessItem \/ SkipDelete
  \/ RetrChunk \/ RetrDone \/ PostDelete
  \/ AfterDownload \/ WaitInterval \/ Finally

SpecMail == InitMail /\ [][NextMail]_vars

\* _cleanup_connections on its own.  quitOK, closeOK: quit() and close()
\* return; raised: an exception leaves the function.

\* CleanupResult without the inner try around close()
CleanupUnguarded(conn, sock, quitOK, closeOK) ==
  [ftp_connection |-> FALSE,
   sock_open |-> IF conn /\ (quitOK \/ closeOK) THEN FALSE ELSE sock,
   raised |-> conn /\ ~quitOK /\ ~closeOK]

\* lines 505-516: nothing is done without a connection; else quit(), when
\* that raises close(), when that raises too nothing; the reference is
\* dropped in the finally clause
CleanupResult(conn, sock, quitOK, closeOK) ==
  [ftp_connection |-> FALSE,
   sock_open |-> IF conn /\ (quitOK \/ closeOK) THEN FALSE ELSE sock,
   raised |-> FALSE]

\* a call of _cleanup_connections; the call before it, if any, has returned
Release ==
  /\ pc = "release" /\ calls < lim.calls
  /\ calls' = calls + 1
  /\ \E closeOK \in BOOLEAN :
       LET r == CleanupResult(ftp_connection, sock_open, OpOK, closeOK)
       IN /\ ftp_connection' = r.ftp_connection
          /\ sock_open' = r.sock_open
          /\ hist' = [hist EXCEPT
                        !.relRaised = @ \/ r.raised,
                        !.relFailed = @ \/ (ftp_connection /\ ~OpOK /\ ~closeOK)]
  /\ UNCHANGED <<raises, pc, flagVars, leaked, connection_failures,
                 mlsd_supported, cycle_count, timeVars, attempt, walkVars, ret,
                 fsVars, envVars, ctl, saw_result>>

\* the worker between calls: with a session that is alive or dead, or with
\* none; the network up or down
InitRelease ==
  /\ lim = [cycles |-> 0, flips |-> ReleaseFlips, calls |-> MaxReleases,
            raises |-> 0, grows |-> 0, dflips |-> 0, probes |-> 0, mails |-> 0]
  /\ raises = 0 /\ disk = "ok" /\ dflips = 0 /\ logf = NoLog
  /\ pc = "release"
  /\ is_running \in BOOLEAN /\ stop_event = ~is_running /\ stopped_event = FALSE
  /\ ftp_connection \in BOOLEAN /\ sock_open \in BOOLEAN /\ leaked = 0
  /\ connection_failures \in 0..(max_connection_failures - 1)
  /\ mlsd_supported \in {"None", "True", "False"} /\ cycle_count = 1
  /\ now = 0 /\ last_download_time = 0 /\ last_cleanup_time = 0
  /\ notified_no_download = FALSE
  /\ attempt = 0 /\ stack = <<>> /\ cur = NoCur /\ ret = 0
  /\ settings \in [delete_after_download : BOOLEAN, EnableFileStability : BOOLEAN]
  /\ server \in [mlsd : BOOLEAN, size : BOOLEAN]
  /\ rsize = [rp \in RemoteFiles |-> InitialSize(rp)]
  /\ hist = [NoHist EXCEPT !.tree = RemoteFiles]
  /\ local = [p \in LocalPaths |-> NoFile] /\ ldirs = {}
  /\ net \in {"up", "down"} /\ flips = 0
  /\ ctl = "idle" /\ calls = 0 /\ saw_result = "none"
  /\ gui = NoGui /\ wk = [t \in Threads |-> NoWorker]

NextRelease == Release \/ NetFlip

SpecRelease == InitRelease /\ [][NextRelease]_vars

\* Cancellation: one file of two chunks, one call of stop() or
\* stop_and_wait() at any moment, an event sink that may throw, no failures
\* of network or disk.
InitCancel ==
  InitWith([cycles |-> CancelCycles, flips |-> 0, calls |-> MaxCalls,
            raises |-> CancelRaises, grows |-> 0, dflips |-> 0, probes |-> 0, mails |-> 0],
           {{"/data/a"}}, BOOLEAN, [mlsd : BOOLEAN, size : BOOLEAN], {FALSE})

NextCancel ==
  \/ RunStart \/ CycleStart \/ AcquireAttempt \/ PerformBegin
  \/ ChangeDir \/ ListDir \/ ProcessItem
  \/ StabilityStart \/ Poll \/ RetrChunk \/ RetrDone \/ PostDelete
  \/ AfterDownload \/ ExceptHandler \/ WaitInterval \/ WaitAfterError
  \/ Finally \/ ExitLoop \/ SignalStopped
  \/ StopBegin \/ StopFinish \/ SawBegin \/ SawReturn

SpecCancel == InitCancel /\ [][NextCancel]_vars

\* The walk under errors: one cycle over the whole tree, with failures of
\* the network and of the local disk, no stability gate, no stop request.
InitFiles ==
  InitWith([cycles |-> FileCycles, flips |-> FileFlips, calls |-> 0,
            raises |-> 0, grows |-> 0, dflips |-> DiskFlips, probes |-> 0, mails |-> 0],
           {RemoteFiles}, {FALSE}, [mlsd : BOOLEAN, size : {TRUE}], BOOLEAN)

NextFiles ==
  \/ RunStart \/ CycleStart \/ AcquireAttempt \/ PerformBegin
  \/ ChangeDir \/ ListDir \/ ProcessItem \/ SkipDelete
  \/ RetrChunk \/ RetrDone \/ PostDelete
  \/ AfterDownload \/ WaitInterval \/ Finally
  \/ NetFlip \/ DiskFlip

SpecFiles == InitFiles /\ [][NextFiles]_vars

\* The stability gate: one remote file that its producer may still be
\* writing, the gate switched on, a server that answers SIZE, network
\* failures, no stop request.
InitGate ==
  InitWith([cycles |-> GateCycles, flips |-> GateFlips, calls |-> 0,
            raises |-> 0, grows |-> MaxGrow, dflips |-> 0, probes |-> 0, mails |-> 0],
           {{"/data/sub/b"}}, {TRUE}, [mlsd : BOOLEAN, size : {TRUE}], {FALSE})

GateWorker ==
  \/ RunStart \/ CycleStart \/ AcquireAttempt \/ PerformBegin
  \/ ChangeDir \/ ListDir \/ ProcessItem \/ SkipDelete
  \/ StabilityStart \/ Poll \/ RetrChunk \/ RetrDone \/ PostDelete
  \/ AfterDownload \/ WaitInterval \/ Finally

NextGate ==
  \/ RunStart \/ CycleStart \/ AcquireAttempt \/ PerformBegin
  \/ ChangeDir \/ ListDir \/ ProcessItem \/ SkipDelete
  \/ StabilityStart \/ Poll \/ RetrChunk \/ RetrDone \/ PostDelete
  \/ AfterDownload \/ WaitInterval \/ Finally
  \/ NetFlip \/ RemoteGrow

SpecGate == InitGate /\ [][NextGate]_vars

\* the worker thread keeps running
SpecGateFair == SpecGate /\ WF_vars(GateWorker)


\* ---------------------------------------------------------- main window
\* The worker threads as the main window sees them: run() of each worker
\* reduced to its loop (lines 55, 56, 58-94, 96-103 of ftp_worker.py).
engineVars == <<pc, is_running, stop_event, stopped_event, ftp_connection,
                sock_open, leaked, connection_failures, mlsd_supported,
                cycle_count, now, last_download_time, last_cleanup_time,
                notified_no_download, attempt, stack, cur, ret, settings,
                server, rsize, local, ldirs, net, flips, raises, lim, ctl,
                calls, saw_result, hist, disk, dflips, logf>>

\* QThread.isRunning(): from start() until run() has returned and the thread
\* has ended
ThreadRunning(t) == wk[t].st \in {"started", "loop", "cycle"}

\* a start request that never finds a thread running
thread_never_running == FALSE

\* _is_thread_running (lines 768-774)
is_thread_running ==
  gui.worker_thread # 0 /\ ThreadRunning(gui.worker_thread)

\* start_monitor (lines 776-840): return when a thread is running, else make
\* a thread and a worker and start the thread
start_monitor ==
  /\ ~gui.aborted
  /\ IF is_thread_running
     THEN /\ gui' = [gui EXCEPT !.refused = TRUE]
          /\ wk' = wk
     ELSE /\ gui.made < MaxThreads
          /\ LET t == gui.made + 1
             IN /\ gui' = [gui EXCEPT !.worker_thread = t, !.ftp_worker = t,
                                      !.made = t]
                /\ wk' = [wk EXCEPT ![t] = [NoWorker EXCEPT !.st = "started"]]
  /\ UNCHANGED engineVars

\* stop_monitor (lines 842-885): stop() of the worker, if there is one; the
\* wait of up to 5 s for the thread changes nothing
stop_monitor ==
  /\ ~gui.aborted
  /\ gui.ftp_worker # 0
  /\ wk' = [wk EXCEPT ![gui.ftp_worker].is_running = FALSE]
  /\ UNCHANGED <<gui, engineVars>>

\* the thread's started signal calls run(): line 55 of ftp_worker.py
thread_started(t) ==
  /\ ~gui.aborted /\ wk[t].st = "started"
  /\ wk' = [wk EXCEPT ![t].st = "loop", ![t].is_running = TRUE]
  /\ UNCHANGED <<gui, engineVars>>

\* line 56 true: a download cycle begins
cycle_begins(t) ==
  /\ ~gui.aborted /\ wk[t].st = "loop" /\ wk[t].is_running
  /\ wk[t].cycles < GuiCycles
  /\ wk' = [wk EXCEPT ![t].st = "cycle", ![t].cycles = @ + 1]
  /\ UNCHANGED <<gui, engineVars>>

\* lines 58-94: the cycle and the wait after it are over
cycle_ends(t) ==
  /\ ~gui.aborted /\ wk[t].st = "cycle"
  /\ wk' = [wk EXCEPT ![t].st = "loop"]
  /\ UNCHANGED <<gui, engineVars>>

\* line 56 false, lines 96-103: run() returns, finished quits the thread, and
\* the thread's finished signal is queued for the main window
run_returns(t) ==
  /\ ~gui.aborted /\ wk[t].st = "loop" /\ ~wk[t].is_running
  /\ wk' = [wk EXCEPT ![t].st = "finished", ![t].pending = TRUE]
  /\ UNCHANGED <<gui, engineVars>>

\* _on_thread_finished (lines 886-898), for the finished signal of thread t:
\* both references are cleared, whichever thread they refer to.  Dropping the
\* last reference to a QThread that is running destroys it, and Qt then ends
\* the process.
on_thread_finished(t) ==
  /\ ~gui.aborted /\ wk[t].pending
  /\ wk' = [wk EXCEPT ![t].pending = FALSE]
  /\ gui' = [gui EXCEPT !.worker_thread = 0, !.ftp_worker = 0,
                        !.aborted = /\ gui.worker_thread \notin {0, t}
                                    /\ ThreadRunning(gui.worker_thread)]
  /\ UNCHANGED engineVars

NextGui ==
  \/ start_monitor
  \/ stop_monitor
  \/ \E t \in Threads : thread_started(t)
  \/ \E t \in Threads : cycle_begins(t)
  \/ \E t \in Threads : cycle_ends(t)
  \/ \E t \in Threads : run_returns(t)
  \/ \E t \in Threads : on_thread_finished(t)

\* The main window with its start and stop requests; the engine of each
\* worker is left out.
InitGui ==
  InitWith([cycles |-> 0, flips |-> 0, calls |-> 0, raises |-> 0, grows |-> 0, dflips |-> 0, probes |-> 0, mails |-> 0],
           {{"/data/sub/b"}}, {FALSE}, {[mlsd |-> TRUE, size |-> TRUE]}, {FALSE})

SpecGui == InitGui /\ [][NextGui]_vars

\* ------------------------------------------------------------- properties
\* C1: the local destination path of every file of the remote tree holds no
\* file or a complete file: bytes go to the temporary path only and a
\* destination changes only by the rename that follows a finished stream.
C1_AtomicPublish ==
  \A rp \in hist.tree : Exists(local, LocalOf(rp)) => local[LocalOf(rp)].whole

\* C2: the second of two undisturbed walks over an unchanged remote tree,
\* with delete_after_download off and SIZE answered, downloads nothing.
C2_Idempotent ==
  (pc = "after" /\ hist.cleanRuns = 2 /\ ~settings.delete_after_download
     /\ server.size)
  => ret = 0

\* C3: over the tree of one root file and one file in a subdirectory, an
\* undisturbed cycle into an empty local root counts 2 and creates both local
\* files with the remote sizes; an undisturbed cycle over the mirrored local
\* root with delete_after_download on counts 0 and deletes both remote files.
C3_Scenario ==
  (pc = "after" /\ hist.clean /\ server.size)
  => /\ hist.scen = "empty"
          => /\ ret = 2
             /\ local["L/a"] = [len |-> InitialSize("/data/a"), whole |-> TRUE]
             /\ local["L/sub/b"] = [len |-> InitialSize("/data/sub/b"),
                                    whole |-> TRUE]
     /\ (hist.scen = "mirrored" /\ settings.delete_after_download)
          => /\ ret = 0
             /\ rsize["/data/a"] = 0 /\ rsize["/data/sub/b"] = 0

\* the later cycle of C3: both files skipped, both deleted remotely
C3_Witness ==
  /\ pc = "after" /\ hist.clean /\ server.size
  /\ hist.scen = "mirrored" /\ settings.delete_after_download
  /\ ret = 0 /\ rsize["/data/a"] = 0 /\ rsize["/data/sub/b"] = 0

\* C4 as claimed: a file without local counterpart whose remote size query
\* failed is downloaded and counted (unless its transfer fails), with the
\* stability gate on or off.
C4_UnknownSizeDownloads ==
  (hist.out # "none" /\ hist.unk /\ hist.fresh)
  => hist.out \in {"downloaded", "failed"}

\* C4 as amended: such a file is never skipped as already downloaded; it is
\* downloaded and counted (unless its transfer fails) when the stability gate
\* is off or no size can be obtained for the gate either, and it is left out
\* as unstable only by a gate that had an initial size.
C4_UnknownSizeNeverSkips ==
  (hist.out # "none" /\ hist.unk /\ hist.fresh)
  => \/ hist.out \in {"downloaded", "failed"}
     \/ (hist.out = "unstable" /\ settings.EnableFileStability /\ hist.initKnown)

\* with the gate on and no size at all, the new file is downloaded
C4_Witness ==
  /\ hist.out = "downloaded" /\ hist.unk /\ hist.fresh
  /\ settings.EnableFileStability /\ ~hist.initKnown

\* C5: a run of consecutive failed cycles sees no session reset before its
\* third cycle, and at its third cycle exactly one, with the failure counter
\* back at zero.
C5_FailureThreshold ==
  /\ hist.streak \in {1, 2} => hist.resets = 0
  /\ hist.streak = max_connection_failures
       => hist.resets = 1 /\ connection_failures = 0

\* C6: after a cycle that ended without error and downloaded a file the
\* failure counter is zero and the last-download time is the current time.
C6_SuccessClearsFailures ==
  (pc = "wait" /\ ret > 0)
  => connection_failures = 0 /\ last_download_time = now

\* a good cycle with a download, after failed ones had been counted
C6_Witness ==
  pc = "wait" /\ ret > 0 /\ hist.cfAtStart > 0 /\ now > 0
  /\ connection_failures = 0 /\ last_download_time = now

\* C7: the loop is left only after a stop request; no error ends it.
C7_OnlyStopEndsLoop ==
  pc \in {"signal", "stopped"} => hist.stopReq

\* stopped on request, after two failed cycles in a row
C7_Witness ==
  pc = "stopped" /\ hist.stopReq /\ hist.streak >= 2

\* C8: once a stop has been requested the worker starts no further cycle (it
\* finishes the cycle in flight, tears the session down and signals stopped).
C8_NoCycleAfterStop ==
  [][hist.stopReq => cycle_count' = cycle_count]_vars

\* C9: a cycle that met a connection-level error (connect failed after the
\* retries, the top-level directory could not be entered or listed) is
\* counted by the scheduler, and so does not end in the wait of a good cycle;
\* stated for the cycles of a worker that nobody has asked to stop.
C9_ConnectionErrorsCounted ==
  (pc = "wait" /\ ~hist.stopReq) => hist.cycErr \notin {"connect", "toplevel"}

\* C10: while a cycle is in progress the controlling thread does not act on
\* the connection.
C10_SessionExclusive ==
  ctl = "stop_fin"
  => pc \notin {"acquire", "connected", "cwd", "list", "item", "skipdel", "stab",
                "poll", "retr", "postdel", "after"}

Pairs(items) == {<<items[k].name, items[k].type>> : k \in 1..Len(items)}

C14_MlsdOncePerSession ==
  /\ ~hist.reprobe
  /\ (~server.mlsd /\ hist.sessListed) => hist.sessTries = 1

\* C15: a connection on which nothing has been listed yet has
\* _mlsd_supported = None, so that its first listing tries MLSD: the flag does
\* not outlive the connection it was learnt on.  Stated for a worker that
\* nobody has asked to stop.
C15_ModeResetOnReconnect ==
  (pc = "connected" /\ ~hist.sessListed /\ ~hist.stopReq)
  => mlsd_supported = "None"

\* C16: once _mlsd_supported is True or False it keeps that value, whatever
\* later listings return, until a new connection is made.  Stated for a
\* worker that nobody has asked to stop.
C16_ModeSetOnce ==
  [][(mlsd_supported # "None" /\ pc # "acquire" /\ ~hist.stopReq)
       => mlsd_supported' = mlsd_supported]_vars


\* C17: the stability gate lets a file through to the transfer only after two
\* consecutive successful size reads that are equal, and a failed size read
\* leaves the consecutive-equal counter at zero, so that equal reads on both
\* sides of a failed read do not make the file stable.
C17_TwoConsecutiveEqualReads ==
  /\ (pc = "retr" /\ hist.initKnown =>
        /\ cur.stable_count >= required_stable_count
        /\ cur.prev_size # None /\ cur.before = cur.prev_size)
  /\ (pc = "poll" /\ cur.polls > 0 /\ cur.prev_size = None => cur.stable_count = 0)
  /\ (pc = "poll" /\ cur.polls > 0 /\ cur.before = None => cur.stable_count <= 1)

\* the initial read and the second poll are equal, the poll between them failed
C17_Witness ==
  /\ pc = "poll" /\ cur.polls = 2 /\ cur.before = None
  /\ cur.prev_size = InitialSize(cur.rp) /\ rsize[cur.rp] = InitialSize(cur.rp)
  /\ cur.stable_count = 1


\* C18: with the gate switched on, a file whose size was different at every
\* poll leaves the gate as unstable: its transfer is not started, the walk of
\* that cycle counts no download, and a file that was not there locally
\* before is still not there.
C18_ChangingFileSkipped ==
  hist.changing =>
    /\ settings.EnableFileStability
    /\ hist.out = "unstable"
    /\ pc # "retr"
    /\ (pc = "after" => ret = 0)
    /\ (hist.fresh => ~Exists(local, "L/sub/b"))

\* the walk is over, its one file changed at every poll and was not fetched
C18_Witness ==
  /\ hist.changing /\ hist.fresh /\ pc = "after" /\ ret = 0
  /\ rsize["/data/sub/b"] = InitialSize("/data/sub/b") + MaxGrow


\* C19: a file that the gate skipped as unstable is taken up again by a later
\* cycle: when a cycle is still to come, the producer has finished writing
\* and the network stays up, the file is eventually downloaded, whole and
\* with its final size.
C19_UnstableRetried ==
  (/\ hist.out = "unstable" /\ cycle_count < lim.cycles
   /\ net = "up" /\ flips = lim.flips
   /\ rsize["/data/sub/b"] = InitialSize("/data/sub/b") + lim.grows)
  ~> (/\ hist.out = "downloaded"
      /\ local["L/sub/b"] = [len |-> InitialSize("/data/sub/b") + lim.grows,
                             whole |-> TRUE])

\* a later cycle has downloaded the file that an earlier one left as unstable
C19_Witness ==
  /\ hist.unstableBefore /\ hist.out = "downloaded" /\ cycle_count >= 2
  /\ cur.stable_count >= required_stable_count
  /\ local["L/sub/b"] = [len |-> InitialSize("/data/sub/b") + lim.grows,
                         whole |-> TRUE]


\* C20: an error of one file (its size query, transfer, local write, rename
\* or delete) stays with that file: when the walk of a cycle is over, every
\* entry that a directory listing returned has been taken up, the entries
\* listed after a failed file included.
C20_SiblingsStillProcessed ==
  pc = "after" => hist.listed \subseteq hist.visited

\* the first file of the root failed; the directory and the file listed
\* after it, and the file in that directory, were processed all the same
C20_Witness ==
  /\ pc = "after" /\ "/data/a.part" \in hist.failed
  /\ {"/data/sub", "/data/sub/b", "/data/a"} \subseteq hist.visited
  /\ disk = "full"


\* C21: an error of a directory (it cannot be entered, its local directory
\* cannot be made, or it cannot be listed) ends the walk of that directory
\* only: nothing below it is taken up, the call returns to its caller, and
\* when the walk of the cycle is over every entry that was listed, the
\* entries after the failed directory included, has been taken up.
C21_DirErrorAbortsSubtreeOnly ==
  (pc = "after" /\ "/data/sub" \in hist.dirFailed)
  => /\ hist.listed \subseteq hist.visited
     /\ "/data/sub/b" \notin hist.visited
     /\ ("/data/a" \in hist.listed => "/data/a" \in hist.visited)

\* the subdirectory failed, and the file listed after it was downloaded
C21_Witness ==
  /\ pc = "after" /\ hist.dirFailed = {"/data/sub"}
  /\ "/data/a" \in hist.visited /\ local["L/a"].whole
  /\ ~Exists(local, "L/sub/b") /\ ret >= 1


\* C22: in one cycle at most skip_log_limit skips are reported, counted over
\* all the directories of the tree.
C22_SkipLogsPerCycle == hist.skipEvents <= skip_log_limit


C24_TempDiscarded ==
  "/data/a" \in hist.failed => ~Exists(local, TempPath("L/a"))


\* C25: once a stop is signalled while a file is being polled for
\* stability, the polling loop ends within one poll tick: at most one more
\* poll is made and the loop is not entered again after it.
C25_PollInterruptible ==
  (hist.sigInPoll /\ pc = "poll") => cur.polls <= hist.sigPollAt


\* C26: a wait between cycles that finds the stop event set, after a
\* successful cycle (line 80) and after a failed one (line 91) alike, ends
\* without any of its time passing, and the worker goes on to the end of
\* the loop.
C26_StopCutsWait ==
  [][(pc \in {"wait", "waitErr"} /\ stop_event /\ pc' # pc)
       => (now' = now /\ pc' = "finally")]_vars

\* the wait after a failed cycle was cut short by a stop
C26_Witness ==
  /\ hist.cut = "waitErr" /\ stop_event /\ pc = "finally" /\ now = 0


\* C27: a step of _get_or_create_ftp_connection that finds the session
\* alive reuses it and opens nothing; one that finds it dead closes it and
\* connects anew; a failed connect is followed by another attempt until
\* max_retries attempts have failed, and only then is failure reported.
C27_AcquireReusesOrRetries ==
  [][(pc = "acquire" /\ (pc' # pc \/ attempt' # attempt))
       => /\ (ftp_connection /\ OpOK
                => pc' = "connected" /\ attempt' = attempt
                   /\ UNCHANGED connVars /\ hist'.tornDown = hist.tornDown)
          /\ (ftp_connection /\ ~OpOK
                => IF pc' = "connected"
                   THEN ftp_connection' /\ sock_open' /\ hist'.tornDown
                   ELSE ~ftp_connection' /\ ~sock_open')
          /\ attempt' <= max_retries
          /\ (pc' = "connected" => attempt' < max_retries)
          /\ (pc' = "after" => attempt' = max_retries /\ ~ftp_connection')
          /\ (attempt' < max_retries => pc' \in {"acquire", "connected"})]_vars

\* the probe failed, the dead session was closed, the first connect failed
\* and the second one succeeded
C27_Witness ==
  /\ pc = "connected" /\ hist.tornDown /\ attempt = 1
  /\ ftp_connection /\ sock_open /\ leaked = 0 /\ ~hist.stopReq


\* C28: a call of _cleanup_connections, with or without a session, whether
\* quit() and close() fail or not, raises nothing and leaves the worker
\* without a session; a call made without a session changes nothing, so a
\* second call changes nothing.
C28_ReleaseIdempotent ==
  [][(pc = "release" /\ calls' = calls + 1)
       => /\ ~ftp_connection' /\ ~hist'.relRaised
          /\ (~ftp_connection => UNCHANGED connVars)]_vars

\* three calls were made; the first found a session whose quit() and
\* close() both failed
C28_Witness ==
  /\ pc = "release" /\ calls = MaxReleases /\ hist.relFailed
  /\ ~ftp_connection /\ ~hist.relRaised


\* C29 as stated: once a cycle is over, whether it succeeded or failed, the
\* notification hook has been evaluated exactly once.
C29_HookAfterEveryCycle ==
  (pc = "loop" /\ cycle_count > 0) => hist.hookEvals = 1

\* C29: inside a cycle the hook is not evaluated; once the cycle is over,
\* success or failure, it has been evaluated at most once, and exactly once,
\* reading the last-download time, whenever the worker is still running (so
\* before every next cycle).
C29_HookOncePerRunningCycle ==
  /\ pc # "loop" => hist.hookEvals = 0
  /\ (pc = "loop" /\ cycle_count > 0) =>
       /\ hist.hookEvals <= 1
       /\ is_running => /\ hist.hookEvals = 1
                        /\ hist.hookLdt = last_download_time

\* the first cycle failed, the worker goes on, the hook was evaluated once
C29_Witness ==
  /\ pc = "loop" /\ is_running /\ cycle_count = 1
  /\ connection_failures = 1 /\ hist.hookEvals = 1


\* C30: once a cycle is over and the worker waits for the next one, after a
\* success or after a failure, a session is not held when the cleanup
\* interval has elapsed since the last cleanup (it was released, so the next
\* cycle has to connect anew).
C30_CleanupAfterEveryCycle ==
  pc \in {"wait", "waitErr"} => ~(CleanupDue /\ ftp_connection)


\* C31: whenever stop_and_wait returns, it returns True exactly when the
\* worker has finished its cleanup (the loop is left, the final teardown is
\* done and the stop was signalled), whatever the interleaving with the
\* worker and with an earlier stop().
C31_SawTrueIffFinished ==
  [][(ctl = "saw_wait" /\ ctl' = "idle")
       => (saw_result' = "True" <=> pc = "stopped")]_vars


\* structured events written by the handler of a failed size query (lines
\* 216-218: remote_size = None, nothing is logged) and by the handler of a
\* file's error (lines 367-369: one log_error_details)
SizeErrorEntries == 0
FileErrorEntries == 1

\* errors met for the file processed last, and the events written for them
ErrorsMet ==
  (IF hist.unk THEN 1 ELSE 0) + (IF hist.out = "failed" THEN 1 ELSE 0)
ErrorEntries ==
  (IF hist.unk THEN SizeErrorEntries ELSE 0)
    + (IF hist.out = "failed" THEN FileErrorEntries ELSE 0)

\* C32: every error met while a file is processed (size query, transfer)
\* has written exactly one event: the events written for the file equal the
\* errors met for it.
C32_OneEntryPerError ==
  ErrorEntries = ErrorsMet


\* C33: while no rename of a rollover has failed, after every write of
\* records shorter than the maximum the active log file holds at most
\* MaxBytes bytes, and a write that found the file about to reach MaxBytes
\* rolled it over first.
C33_ActiveLogBounded ==
  (logf.open /\ ~logf.replaceFailed)
    => /\ logf.size <= MaxBytes
       /\ logf.needed => logf.rolled


\* C34: a listing whose MLSD call succeeded, in mode unknown or supported,
\* has not called NLST as well, whatever MLSD returned, an empty listing
\* included.
C34_ExtendedListingOnly ==
  hist.lastList # "mlsd+nlst"


\* C35: every entry of a listing is a directory exactly when a cwd to it
\* succeeds, that is when it is a directory on the server, whatever the
\* restoring cwd('..') did; '.' and '..' are not among the entries.
C35_ProbeClassifies ==
  \A i \in 1..Len(stack) : \A k \in 1..Len(stack[i].items) :
     LET e == stack[i].items[k]
     IN /\ e.name \notin {".", ".."}
        /\ e.type = "dir" <=> RemoteJoin(stack[i].rp, e.name) \in RemoteDirs


\* the counts of the frames of a walk, added up
RECURSIVE SumCounts(_)
SumCounts(frames) ==
  IF frames = <<>> THEN 0
  ELSE frames[Len(frames)].count + SumCounts(SubSeq(frames, 1, Len(frames) - 1))

\* C36: during a walk the counts of its frames add up to the number of
\* files moved to their destination so far, and the walk returns that
\* number: a download adds one, a skipped, deleted or failed file nothing,
\* and a later error of a file or a directory takes nothing away.
C36_CountIsPublished ==
  /\ stack # <<>> => SumCounts(stack) = hist.published
  /\ pc = "after" => ret = hist.published

\* two files were downloaded, the file listed after them failed, and the
\* walk returned 2
C36_Witness ==
  /\ pc = "after" /\ ret = 2 /\ hist.failed = {"/data/a"}
  /\ local["L/a.part"].whole /\ local["L/sub/b"].whole


\* C37: a remote file is deleted only with delete_after_download set and
\* while its local destination exists: the file was just moved into place
\* by this transfer, or it was there with the size the server reported.
C37_DeleteOnlyWithLocalCopy ==
  [][\A rp \in RemoteFiles :
       (rsize[rp] > 0 /\ rsize'[rp] = 0)
       => /\ settings.delete_after_download
          /\ cur.rp = rp /\ Exists(local, cur.lp)
          /\ \/ pc = "postdel" /\ hist.out = "downloaded" /\ local[cur.lp].whole
             \/ /\ pc = "skipdel" /\ cur.remote_size # None
                /\ local[cur.lp].len = cur.remote_size]_vars

\* the file of the subdirectory was downloaded into an empty local tree and
\* then deleted on the server
C37_Witness ==
  /\ pc = "after" /\ settings.delete_after_download /\ ret >= 1
  /\ rsize["/data/sub/b"] = 0 /\ Exists(local, "L/sub/b")
  /\ local["L/sub/b"].whole


\* C38: a published local file changes or disappears only by the transfer
\* of its own remote file: no step of the transfer of another entry, whose
\* temporary file is its destination path plus '.part', touches it.
C38_NoForeignOverwrite ==
  [][\A p \in DestPaths :
       (Exists(local, p) /\ local[p].whole /\ local'[p] # local[p])
       => (pc = "retr" /\ cur.lp = p)]_vars


\* C39: once the worker has signalled that it is fully stopped, it holds no
\* connection, the newest connection is closed and no connection that was
\* opened is left open without a reference, whatever stop() did meanwhile.
C39_NothingOpenWhenStopped ==
  pc = "stopped" => (~ftp_connection /\ ~sock_open /\ leaked = 0)


\* C40: since the last cycle that downloaded a file at most one alert has
\* been delivered: after a delivered alert none is sent until a cycle with
\* count > 0 clears the flag.
C40_OneAlertPerSilence ==
  hist.alerts <= 1

====
